---- MODULE Spec2Model ----
(***************************************************************************)
(* Model of src/main.py: main() calls GitHubAPI.get_user_events_2024 and   *)
(* then GitHubAPI.get_user_commits_2024.  Both walk the paginated events   *)
(* endpoint; the second issues one commit-detail request per SHA of every  *)
(* 2024 PushEvent.  Every HTTP request either returns or raises            *)
(* requests.RequestException; the remote serves a page number with the     *)
(* same body for the whole run (feed).                                     *)
(***************************************************************************)
EXTENDS Integers, Sequences, FiniteSets, TLC

VARIABLES
    pc,           \* position of the single thread of control
    feed,         \* remote: page number -> body served for that page
    page,         \* local `page` of the running traversal
    events,       \* local `events` of get_user_events_2024
    commits,      \* local `commits` of get_user_commits_2024
    data,         \* local `data`: the page body being iterated
    idx,          \* position of `for event in data` (1-based)
    owner,        \* local `owner`
    repo,         \* local `repo`
    j,            \* position of `for commit_data in ...["commits"]`
    main_events,  \* main's `events`
    main_commits, \* main's `commits`
    returned,     \* traversals that returned a list to main
    exit_code,    \* process exit status, -1 while running
    reqLog,       \* history: every HTTP request issued, in order
    acted         \* history: events that passed the filter of line 181

vars == <<pc, feed, page, events, commits, data, idx, owner, repo, j,
          main_events, main_commits, returned, exit_code, reqLog, acted>>

----------------------------------------------------------------------------
\* Program constants
PER_PAGE == 100
HISTORY_CAP == 300
YEAR == 2024

\* Bounds of the model
MaxShort == 1       \* catalogue events on a page that is not padded
MaxPageReqs == 5    \* page requests one traversal may issue in the model

----------------------------------------------------------------------------
\* Remote data: raw event objects of the events endpoint
RawEvent(id, type, name, created, shas) ==
    [id |-> id, type |-> type, repo |-> [name |-> name], created_at |-> created,
     payload |-> [commits |-> [k \in 1..Len(shas) |-> [sha |-> shas[k]]]]]

OwnerRepo == <<"o", "/", "r">>
PushA == RawEvent(1, "PushEvent", OwnerRepo, <<2, 0, 2, 4>>, <<"s1", "s2", "s3">>)
PushB == RawEvent(2, "PushEvent", OwnerRepo, <<2, 0, 2, 4>>, <<"s1">>)
PushOld == RawEvent(3, "PushEvent", OwnerRepo, <<2, 0, 2, 3>>, <<"s2">>)
\* a 2024 event of another type whose payload carries a commits list
CreateNew == RawEvent(4, "CreateEvent", OwnerRepo, <<2, 0, 2, 4>>, <<"s4">>)
PushBare == RawEvent(5, "PushEvent", <<"o", "r">>, <<2, 0, 2, 4>>, <<"s1">>)
PushDeep == RawEvent(6, "PushEvent", <<"o", "/", "r", "/", "x">>, <<2, 0, 2, 4>>, <<"s1">>)
Filler == RawEvent(0, "WatchEvent", OwnerRepo, <<2, 0, 2, 3>>, <<>>)

Catalog == {PushA, PushB, PushOld, CreateNew, PushBare, PushDeep}

\* Page bodies the remote may serve: up to MaxShort catalogue events; 99 old
\* events; or a full page, which is old events after at most one catalogue
\* event with at most one commit, or old events between two pushes.
Leads(n) == UNION {[1..k -> Catalog] : k \in 0..n}
Pad(s, n) == s \o [k \in 1..(n - Len(s)) |-> Filler]
Sandwich == Pad(<<PushB>>, PER_PAGE - 1) \o <<PushB>>

ShortBodies == Leads(MaxShort) \cup {Pad(<<>>, PER_PAGE - 1)}
FullBodies == {Pad(<<e>>, PER_PAGE) : e \in Catalog \ {PushA}}
                  \cup {Pad(<<>>, PER_PAGE), Sandwich}
Bodies == ShortBodies \cup FullBodies

\* The body the remote serves for page p: fixed once it was served.
Served(p) == IF p \in DOMAIN feed THEN {feed[p]} ELSE Bodies
Serve(p, body) == IF p \in DOMAIN feed THEN feed ELSE feed @@ (p :> body)

----------------------------------------------------------------------------
\* Pure helpers

\* datetime.strptime(event["created_at"], ...).year
ParseYear(c) == c[1] * 1000 + c[2] * 100 + c[3] * 10 + c[4]

\* GitHubEvent(...) built from a raw element (lines 92-98)
GitHubEvent(e) ==
    [id |-> e.id, type |-> e.type, repo_name |-> e.repo.name,
     created_at |-> [year |-> ParseYear(e.created_at)], payload |-> e.payload]

\* the filter of line 89: the element is kept
KeepEvent(e) == ~(ParseYear(e.created_at) # YEAR)

\* lines 85-99 with `break` in place of the `continue` of line 90
FilterPageBreak(body) ==
    LET bad == {k \in 1..Len(body) : ~KeepEvent(body[k])}
        cut == IF bad = {} THEN Len(body) + 1
               ELSE CHOOSE k \in bad : \A m \in bad : k <= m
    IN [k \in 1..(cut - 1) |-> GitHubEvent(body[k])]

\* the for loop of lines 85-99 over one page: the kept elements, converted
FilterPage(body) ==
    LET kept == SelectSeq(body, KeepEvent)
    IN [k \in 1..Len(kept) |-> GitHubEvent(kept[k])]

\* line 103 with the cap compared by > instead of >=
EventsStopLate(body, p) == Len(body) < PER_PAGE \/ p * PER_PAGE > HISTORY_CAP

\* line 103
EventsStop(body, p) == Len(body) < PER_PAGE \/ p * PER_PAGE >= HISTORY_CAP

\* line 106 without the increment
EventsNextPageSame(p) == p

\* line 106
EventsNextPage(p) == p + 1

\* line 181 without the type test
ActOnAnyType(e) == ~(ParseYear(e.created_at) # YEAR)

\* the filter of line 181: the element is acted on
ActOn(e) == ~(ParseYear(e.created_at) # YEAR \/ e.type # "PushEvent")

\* the `continue` iterations of the for loop of line 177: the first position
\* at or after i whose element is acted on, Len(body) + 1 when there is none
NextPush(body, i) ==
    LET hits == {k \in i..Len(body) : ActOn(body[k])}
    IN IF hits = {} THEN Len(body) + 1
       ELSE CHOOSE k \in hits : \A m \in hits : k <= m

\* str.split(sep) without maxsplit: every separator splits
RECURSIVE SplitFrom(_, _, _, _)
SplitFrom(s, sep, i, cur) ==
    IF i > Len(s) THEN <<cur>>
    ELSE IF s[i] = sep THEN <<cur>> \o SplitFrom(s, sep, i + 1, <<>>)
         ELSE SplitFrom(s, sep, i + 1, Append(cur, s[i]))

\* str.split(sep, 1): only the first separator splits
SplitFirst(s, sep) ==
    LET at == {k \in 1..Len(s) : s[k] = sep}
    IN IF at = {} THEN <<s>>
       ELSE LET f == CHOOSE k \in at : \A m \in at : k <= m
            IN <<SubSeq(s, 1, f - 1), SubSeq(s, f + 1, Len(s))>>

\* line 185 as split("/", 1)
SplitRepoNameFirst(name) == SplitFirst(name, "/")

\* line 185: event["repo"]["name"].split("/")
SplitRepoName(name) == SplitFrom(name, "/", 1, <<>>)

\* line 185: `owner, repo = ...` unpacks exactly two values, else ValueError
Unpacks(parts) == Len(parts) = 2

\* GitHubCommit(...) of lines 132-141; the remote answers with the asked SHA
GitHubCommit(o, r, sha) == [sha |-> sha, repo_name |-> o \o <<"/">> \o r]

\* line 195 without the short-page test
CommitsStopCapOnly(body, p) == p * PER_PAGE >= HISTORY_CAP

\* line 195
CommitsStop(body, p) == Len(body) < PER_PAGE \/ p * PER_PAGE >= HISTORY_CAP

\* line 198 advancing by two
CommitsNextPageSkip(p) == p + 2

\* line 198
CommitsNextPage(p) == p + 1

----------------------------------------------------------------------------
\* History helpers
PageReq(fn, p, ok, n) == [kind |-> "page", fn |-> fn, page |-> p, ok |-> ok, n |-> n]
DetailReq(o, r, sha, ok, p, i, k) ==
    [kind |-> "detail", owner |-> o, repo |-> r, sha |-> sha, ok |-> ok,
     page |-> p, idx |-> i, j |-> k]

IsPageReq(q, fn) == q.kind = "page" /\ q.fn = fn
PageReqs(fn) == SelectSeq(reqLog, LAMBDA q : IsPageReq(q, fn))
DetailReqs == SelectSeq(reqLog, LAMBDA q : q.kind = "detail")

----------------------------------------------------------------------------
Init ==
    /\ pc = "main"
    /\ feed = <<>>
    /\ page = 0
    /\ events = <<>>
    /\ commits = <<>>
    /\ data = <<>>
    /\ idx = 0
    /\ owner = <<>>
    /\ repo = <<>>
    /\ j = 0
    /\ main_events = <<>>
    /\ main_commits = <<>>
    /\ returned = {}
    /\ exit_code = -1
    /\ reqLog = <<>>
    /\ acted = <<>>

\* main, line 222: call get_user_events_2024 (lines 67-68)
CallEvents ==
    /\ pc = "main"
    /\ pc' = "ev_loop"
    /\ events' = <<>>
    /\ page' = 1
    /\ UNCHANGED <<feed, commits, data, idx, owner, repo, j, main_events,
                   main_commits, returned, exit_code, reqLog, acted>>

\* One iteration of the while loop of lines 70-106 whose request succeeds
EventsPage ==
    /\ pc = "ev_loop"
    /\ Len(PageReqs("events")) < MaxPageReqs
    /\ \E body \in Served(page) :
        /\ feed' = Serve(page, body)
        /\ reqLog' = Append(reqLog, PageReq("events", page, TRUE, Len(body)))
        /\ IF body = <<>>
           THEN /\ events' = events
                /\ page' = page
                /\ pc' = "report"
                /\ main_events' = events
                /\ returned' = returned \cup {"events"}
           ELSE /\ events' = events \o FilterPage(body)
                /\ IF EventsStop(body, page)
                   THEN /\ page' = page
                        /\ pc' = "report"
                        /\ main_events' = events'
                        /\ returned' = returned \cup {"events"}
                   ELSE /\ page' = EventsNextPage(page)
                        /\ pc' = "ev_loop"
                        /\ UNCHANGED <<main_events, returned>>
    /\ UNCHANGED <<commits, data, idx, owner, repo, j, main_commits,
                   exit_code, acted>>

\* lines 108-110 swallowing the failure, so that the loop asks again
EventsPageFailRetry ==
    /\ pc = "ev_loop"
    /\ Len(PageReqs("events")) < MaxPageReqs
    /\ reqLog' = Append(reqLog, PageReq("events", page, FALSE, 0))
    /\ UNCHANGED <<pc, exit_code, feed, page, events, commits, data, idx, owner,
                   repo, j, main_events, main_commits, returned, acted>>

\* Lines 78-79 raise; lines 108-110 re-raise; main lines 280-282 exit 1
EventsPageFail ==
    /\ pc = "ev_loop"
    /\ Len(PageReqs("events")) < MaxPageReqs
    /\ reqLog' = Append(reqLog, PageReq("events", page, FALSE, 0))
    /\ pc' = "exit1"
    /\ exit_code' = 1
    /\ UNCHANGED <<feed, page, events, commits, data, idx, owner, repo, j,
                   main_events, main_commits, returned, acted>>

\* main, lines 224-254: report the events, call get_user_commits_2024
CallCommits ==
    /\ pc = "report"
    /\ pc' = "cm_loop"
    /\ commits' = <<>>
    /\ page' = 1
    /\ UNCHANGED <<feed, events, data, idx, owner, repo, j, main_events,
                   main_commits, returned, exit_code, reqLog, acted>>

\* Lines 170-177: the page request succeeds
CommitsPage ==
    /\ pc = "cm_loop"
    /\ Len(PageReqs("commits")) < MaxPageReqs
    /\ \E body \in Served(page) :
        /\ feed' = Serve(page, body)
        /\ reqLog' = Append(reqLog, PageReq("commits", page, TRUE, Len(body)))
        /\ data' = body
        /\ IF body = <<>>
           THEN /\ pc' = "done"
                /\ main_commits' = commits
                /\ returned' = returned \cup {"commits"}
                /\ exit_code' = 0
                /\ idx' = idx
           ELSE /\ pc' = "cm_for"
                /\ idx' = NextPush(body, 1)
                /\ UNCHANGED <<main_commits, returned, exit_code>>
    /\ UNCHANGED <<page, events, commits, owner, repo, j, main_events, acted>>

\* Lines 170-171 raise; lines 200-202 re-raise; main lines 280-282 exit 1
CommitsPageFail ==
    /\ pc = "cm_loop"
    /\ Len(PageReqs("commits")) < MaxPageReqs
    /\ reqLog' = Append(reqLog, PageReq("commits", page, FALSE, 0))
    /\ pc' = "exit1"
    /\ exit_code' = 1
    /\ UNCHANGED <<feed, page, events, commits, data, idx, owner, repo, j,
                   main_events, main_commits, returned, acted>>

\* Line 185 for the event at idx; a ValueError is caught nowhere
SplitRepo ==
    /\ pc = "cm_for"
    /\ idx <= Len(data)
    /\ acted' = Append(acted, data[idx])
    /\ LET parts == SplitRepoName(data[idx].repo.name)
       IN IF Unpacks(parts)
          THEN /\ owner' = parts[1]
               /\ repo' = parts[2]
               /\ j' = 1
               /\ pc' = "cm_inner"
               /\ UNCHANGED exit_code
          ELSE /\ pc' = "crash"
               /\ exit_code' = 1
               /\ UNCHANGED <<owner, repo, j>>
    /\ UNCHANGED <<feed, page, events, commits, data, idx, main_events,
                   main_commits, returned, reqLog>>

\* lines 189-191 skipping a SHA that was collected before
CommitDetailDedup ==
    /\ pc = "cm_inner"
    /\ j <= Len(data[idx].payload.commits)
    /\ LET sha == data[idx].payload.commits[j].sha
       IN /\ reqLog' = Append(reqLog, DetailReq(owner, repo, sha, TRUE, page, idx, j))
          /\ commits' = IF \E k \in 1..Len(commits) : commits[k].sha = sha
                        THEN commits
                        ELSE Append(commits, GitHubCommit(owner, repo, sha))
    /\ j' = j + 1
    /\ UNCHANGED <<pc, feed, page, events, data, idx, owner, repo,
                   main_events, main_commits, returned, exit_code, acted>>

\* Lines 189-191 with get_commit_details returning a GitHubCommit
CommitDetail ==
    /\ pc = "cm_inner"
    /\ j <= Len(data[idx].payload.commits)
    /\ LET sha == data[idx].payload.commits[j].sha
       IN /\ reqLog' = Append(reqLog, DetailReq(owner, repo, sha, TRUE, page, idx, j))
          /\ commits' = Append(commits, GitHubCommit(owner, repo, sha))
    /\ j' = j + 1
    /\ UNCHANGED <<pc, feed, page, events, data, idx, owner, repo,
                   main_events, main_commits, returned, exit_code, acted>>

\* lines 142-144 re-raising, as the events path does
CommitDetailFailRaises ==
    /\ pc = "cm_inner"
    /\ j <= Len(data[idx].payload.commits)
    /\ LET sha == data[idx].payload.commits[j].sha
       IN reqLog' = Append(reqLog, DetailReq(owner, repo, sha, FALSE, page, idx, j))
    /\ pc' = "exit1"
    /\ exit_code' = 1
    /\ UNCHANGED <<j, feed, page, events, commits, data, idx, owner, repo,
                   main_events, main_commits, returned, acted>>

\* Lines 189-190 with get_commit_details returning None (lines 142-144)
CommitDetailFail ==
    /\ pc = "cm_inner"
    /\ j <= Len(data[idx].payload.commits)
    /\ LET sha == data[idx].payload.commits[j].sha
       IN reqLog' = Append(reqLog, DetailReq(owner, repo, sha, FALSE, page, idx, j))
    /\ j' = j + 1
    /\ UNCHANGED <<pc, feed, page, events, commits, data, idx, owner, repo,
                   main_events, main_commits, returned, exit_code, acted>>

\* The inner for loop of line 188 is exhausted: on to the next element
EndOfPush ==
    /\ pc = "cm_inner"
    /\ j > Len(data[idx].payload.commits)
    /\ idx' = NextPush(data, idx + 1)
    /\ pc' = "cm_for"
    /\ UNCHANGED <<feed, page, events, commits, data, owner, repo, j,
                   main_events, main_commits, returned, exit_code, reqLog, acted>>

\* The for loop of line 177 is exhausted: lines 195-198, then line 204
EndOfPage ==
    /\ pc = "cm_for"
    /\ idx > Len(data)
    /\ IF CommitsStop(data, page)
       THEN /\ pc' = "done"
            /\ main_commits' = commits
            /\ returned' = returned \cup {"commits"}
            /\ exit_code' = 0
            /\ page' = page
       ELSE /\ pc' = "cm_loop"
            /\ page' = CommitsNextPage(page)
            /\ UNCHANGED <<main_commits, returned, exit_code>>
    /\ UNCHANGED <<feed, events, commits, data, idx, owner, repo, j,
                   main_events, reqLog, acted>>

Next ==
    \/ CallEvents
    \/ EventsPage
    \/ EventsPageFail
    \/ CallCommits
    \/ CommitsPage
    \/ CommitsPageFail
    \/ SplitRepo
    \/ CommitDetail
    \/ CommitDetailFail
    \/ EndOfPush
    \/ EndOfPage

Spec == Init /\ [][Next]_vars

\* Every HTTP request returns or fails, and the thread of control keeps running
FairSpec == Spec /\ WF_vars(Next)

Finished == pc \in {"done", "exit1", "crash"}

----------------------------------------------------------------------------
\* Vocabulary of the properties, stated on the remote's data and the history

Last(s) == s[Len(s)]
Is2024(e) == e.created_at = <<2, 0, 2, 4>>
IsPush2024(e) == e.type = "PushEvent" /\ Is2024(e)
SlashCount(name) == Cardinality({k \in DOMAIN name : name[k] = "/"})
FullName(o, r) == o \o <<"/">> \o r

\* page numbers of the page requests of a traversal, in request order
PagesOf(fn) == [k \in 1..Len(PageReqs(fn)) |-> PageReqs(fn)[k].page]
\* page numbers whose request succeeded
OkPagesOf(fn) ==
    LET ok == SelectSeq(reqLog, LAMBDA q : IsPageReq(q, fn) /\ q.ok)
    IN [k \in 1..Len(ok) |-> ok[k].page]

RECURSIVE Concat(_)
Concat(ss) == IF ss = <<>> THEN <<>> ELSE Head(ss) \o Concat(Tail(ss))

RECURSIVE Ascending(_)
Ascending(S) ==
    IF S = {} THEN <<>>
    ELSE LET m == CHOOSE x \in S : \A y \in S : x <= y
         IN <<m>> \o Ascending(S \ {m})

\* g is the Event record of the raw element e
Matches(g, e) ==
    /\ g.id = e.id
    /\ g.type = e.type
    /\ g.repo_name = e.repo.name
    /\ g.payload = e.payload
    /\ g.created_at.year = 2024

\* the 2024 elements of the pages the event fetcher received, as delivered
Delivered2024 ==
    Concat([k \in 1..Len(OkPagesOf("events")) |->
                SelectSeq(feed[OkPagesOf("events")[k]], Is2024)])

\* the (page, position, sha position) triples of every SHA listed by a 2024
\* PushEvent of the pages the commit enricher received, in delivery order
ShasOfPage(p) ==
    LET pushes == Ascending({i \in 1..Len(feed[p]) : IsPush2024(feed[p][i])})
    IN Concat([n \in 1..Len(pushes) |->
                  [k \in 1..Len(feed[p][pushes[n]].payload.commits) |->
                      <<p, pushes[n], k>>]])
ListedShas ==
    Concat([k \in 1..Len(OkPagesOf("commits")) |-> ShasOfPage(OkPagesOf("commits")[k])])

OkDetails == SelectSeq(reqLog, LAMBDA q : q.kind = "detail" /\ q.ok)

----------------------------------------------------------------------------
\* C1: in both traversals every events-page request is for page 1, 2 or 3,
\* a page whose starting offset (page - 1) * 100 is below 300, and no page
\* request of the same traversal follows the request for page 3, whatever
\* that page held.
C1_HistoryCap ==
    \A k \in 1..Len(reqLog) :
        reqLog[k].kind = "page" =>
            /\ reqLog[k].page \in {1, 2, 3}
            /\ (reqLog[k].page - 1) * 100 < 300
            /\ reqLog[k].page = 3 =>
                 \A m \in (k + 1)..Len(reqLog) : ~IsPageReq(reqLog[m], reqLog[k].fn)

\* both traversals received a 100-element page 3 and have stopped
C1_Witness ==
    /\ pc = "done"
    /\ \E k \in 1..Len(reqLog) :
          IsPageReq(reqLog[k], "events") /\ reqLog[k].page = 3 /\ reqLog[k].n = 100
    /\ Last(reqLog).kind = "page" /\ Last(reqLog).page = 3 /\ Last(reqLog).n = 100

\* C2: a page that returned fewer than 100 elements (an empty page too) is
\* the last page its traversal requests, and its elements are processed: its
\* 2024 elements end the event list, and every SHA of its 2024 PushEvents
\* was requested by the time the commit traversal returns.
C2_ShortPageStops ==
    /\ \A k \in 1..Len(reqLog) :
          (reqLog[k].kind = "page" /\ reqLog[k].ok /\ reqLog[k].n < 100) =>
              \A m \in (k + 1)..Len(reqLog) : ~IsPageReq(reqLog[m], reqLog[k].fn)
    /\ ("events" \in returned /\ Last(PageReqs("events")).n < 100) =>
          LET short == SelectSeq(feed[Last(PageReqs("events")).page], Is2024)
              off == Len(main_events) - Len(short)
          IN /\ off >= 0
             /\ \A k \in 1..Len(short) : Matches(main_events[off + k], short[k])
    /\ ("commits" \in returned /\ Last(PageReqs("commits")).n < 100) =>
          LET p == Last(PageReqs("commits")).page
          IN \A t \in {ShasOfPage(p)[k] : k \in 1..Len(ShasOfPage(p))} :
                \E m \in 1..Len(reqLog) :
                    /\ reqLog[m].kind = "detail"
                    /\ <<reqLog[m].page, reqLog[m].idx, reqLog[m].j>> = t

\* page 1 was full, page 2 was short with a push, and both traversals are done
C2_Witness ==
    /\ pc = "done"
    /\ PagesOf("events") = <<1, 2>>
    /\ PagesOf("commits") = <<1, 2>>
    /\ feed[2] = <<PushA>>
    /\ Len(main_commits) >= 1

\* C3: the list get_user_events_2024 returns is exactly the 2024 elements of
\* the pages it received, in page order and then delivery order.
C3_EventsResult ==
    "events" \in returned =>
        LET want == Delivered2024
        IN /\ Len(main_events) = Len(want)
           /\ \A k \in 1..Len(main_events) : Matches(main_events[k], want[k])

\* three pages were received; one of them holds 2024 elements after elements
\* of another year, and the result holds events of two pages
C3_Witness ==
    /\ "events" \in returned
    /\ PagesOf("events") = <<1, 2, 3>>
    /\ feed[1] = Sandwich
    /\ feed[2] = Pad(<<CreateNew>>, PER_PAGE)
    /\ Len(main_events) >= 3

\* C4: every commit-detail request is for a SHA listed in the payload of an
\* element of a received page whose type is "PushEvent" and whose year is
\* 2024, and every collected Commit comes from such a request.
C4_OnlyPush2024 ==
    /\ \A k \in 1..Len(reqLog) :
          reqLog[k].kind = "detail" =>
              /\ reqLog[k].page \in DOMAIN feed
              /\ \E m \in 1..(k - 1) :
                    /\ IsPageReq(reqLog[m], "commits")
                    /\ reqLog[m].ok
                    /\ reqLog[m].page = reqLog[k].page
              /\ reqLog[k].idx \in 1..Len(feed[reqLog[k].page])
              /\ LET e == feed[reqLog[k].page][reqLog[k].idx]
                 IN /\ e.type = "PushEvent"
                    /\ Is2024(e)
                    /\ reqLog[k].j \in 1..Len(e.payload.commits)
                    /\ reqLog[k].sha = e.payload.commits[reqLog[k].j].sha
    /\ Len(commits) = Len(OkDetails)
    /\ \A k \in 1..Len(commits) : commits[k].sha = OkDetails[k].sha
    /\ \A k \in 1..Len(acted) : IsPush2024(acted[k])

\* a page holding a 2023 push and a page holding a 2024 non-push with commits
\* were scanned, and a commit of a later 2024 push was collected
C4_Witness ==
    /\ pc = "done"
    /\ PagesOf("commits") = <<1, 2, 3>>
    /\ feed[1] = Pad(<<PushOld>>, PER_PAGE)
    /\ feed[2] = Pad(<<CreateNew>>, PER_PAGE)
    /\ feed[3] = <<PushB>>
    /\ Len(main_commits) = 1

\* the step that logs a failed commit-detail request
DetailFailStep ==
    /\ Len(reqLog') = Len(reqLog) + 1
    /\ Last(reqLog').kind = "detail"
    /\ ~Last(reqLog').ok

FailedDetails == SelectSeq(reqLog, LAMBDA q : q.kind = "detail" /\ ~q.ok)

\* C5: a failed commit-detail request skips that one commit and changes
\* nothing else: the step keeps the collected commits, the page, the event
\* and the exit status and moves on to the next SHA; the request that
\* follows a failure is the one that follows a success (next SHA of the push,
\* else a later push of the page, else the next page); and the list returned
\* holds one Commit per listed SHA whose request did not fail.
C5_FailureIsolated ==
    /\ [][DetailFailStep =>
            /\ pc = "cm_inner" /\ pc' = "cm_inner"
            /\ j' = j + 1
            /\ commits' = commits
            /\ <<page, data, idx, owner, repo, exit_code, returned, main_commits>>' =
                   <<page, data, idx, owner, repo, exit_code, returned, main_commits>>]_vars
    /\ [](\A k \in 1..(Len(reqLog) - 1) :
            (reqLog[k].kind = "detail" /\ ~reqLog[k].ok) =>
                LET q == reqLog[k]
                    nx == reqLog[k + 1]
                    n == Len(feed[q.page][q.idx].payload.commits)
                IN IF q.j < n
                   THEN nx.kind = "detail" /\ <<nx.page, nx.idx, nx.j>> = <<q.page, q.idx, q.j + 1>>
                   ELSE \/ nx.kind = "detail" /\ nx.page = q.page /\ nx.idx > q.idx /\ nx.j = 1
                        \/ IsPageReq(nx, "commits") /\ nx.page = q.page + 1)
    /\ [](Len(commits) = Len(OkDetails))
    /\ []("commits" \in returned =>
            Len(main_commits) = Len(ListedShas) - Len(FailedDetails))

\* a push with three SHAs, the second of which failed, gave two commits, and
\* the traversal returned
C5_Witness ==
    /\ pc = "done"
    /\ feed[1] = <<PushA>>
    /\ Len(FailedDetails) = 1
    /\ FailedDetails[1].sha = "s2"
    /\ Len(main_commits) = 2
    /\ Last(reqLog).sha = "s3" /\ Last(reqLog).ok

\* C6: a failed events-page request is the last request of the run: the
\* traversal returns no list, main ends with sys.exit(1), and sys.exit(1) is
\* reached in no other way; a failed commit-detail request leaves the exit
\* status as it was.
C6_PageFailureAborts ==
    /\ \A k \in 1..Len(reqLog) :
          (reqLog[k].kind = "page" /\ ~reqLog[k].ok) =>
              /\ k = Len(reqLog)
              /\ pc = "exit1"
              /\ exit_code = 1
              /\ reqLog[k].fn \notin returned
              /\ reqLog[k].fn = "events" => main_events = <<>>
              /\ reqLog[k].fn = "commits" => main_commits = <<>>
    /\ pc = "exit1" =>
          /\ reqLog # <<>>
          /\ Last(reqLog).kind = "page"
          /\ ~Last(reqLog).ok
    /\ (reqLog # <<>> /\ Last(reqLog).kind = "detail" /\ ~Last(reqLog).ok /\ pc = "cm_inner")
          => exit_code = -1

\* the second page request of the event traversal failed after 2024 events
\* of page 1 had been accumulated
C6_Witness ==
    /\ pc = "exit1"
    /\ Len(reqLog) = 2
    /\ Last(reqLog).fn = "events"
    /\ Last(reqLog).page = 2
    /\ events # <<>>
    /\ main_events = <<>>

\* C7 as stated: the split fails only for a name without "/", and a name
\* with at least one "/" is split at the first one.
C7_SplitsAtFirstSlash ==
    /\ pc = "crash" => SlashCount(Last(acted).repo.name) = 0
    /\ pc = "cm_inner" =>
          LET name == data[idx].repo.name
              f == CHOOSE k \in 1..Len(name) :
                      name[k] = "/" /\ \A m \in 1..(k - 1) : name[m] # "/"
          IN owner = SubSeq(name, 1, f - 1) /\ repo = SubSeq(name, f + 1, Len(name))

\* C7, amended: the split succeeds exactly when the name holds one "/"; then
\* owner is the text before it and repo the text after it, and the detail
\* requests carry them; a name holding no "/" or two or more fails with a
\* ValueError that ends the run.
C7_SplitsExactlyOneSlash ==
    /\ acted # <<>> => (pc = "crash" <=> SlashCount(Last(acted).repo.name) # 1)
    /\ pc = "cm_inner" =>
          /\ SlashCount(data[idx].repo.name) = 1
          /\ FullName(owner, repo) = data[idx].repo.name
          /\ SlashCount(owner) = 0 /\ SlashCount(repo) = 0
    /\ \A k \in 1..Len(reqLog) :
          reqLog[k].kind = "detail" =>
              FullName(reqLog[k].owner, reqLog[k].repo) =
                  feed[reqLog[k].page][reqLog[k].idx].repo.name

\* the run ended on a name with two "/"
C7_Witness ==
    /\ pc = "crash"
    /\ SlashCount(Last(acted).repo.name) = 2
    /\ Len(acted) = 2
    /\ OkDetails # <<>>

\* C8: the list get_user_commits_2024 returns holds one Commit per SHA whose
\* detail request succeeded; the requests are those for the listed SHAs in
\* page, event and payload order, each SHA requested once per listing.
C8_CommitsResult ==
    "commits" \in returned =>
        LET asked == DetailReqs
            listed == ListedShas
            fetched == OkDetails
        IN /\ Len(asked) = Len(listed)
           /\ \A k \in 1..Len(asked) :
                 LET q == asked[k]
                 IN /\ <<q.page, q.idx, q.j>> = listed[k]
                    /\ q.sha = feed[q.page][q.idx].payload.commits[q.j].sha
           /\ Len(main_commits) = Len(fetched)
           /\ \A k \in 1..Len(main_commits) :
                 /\ main_commits[k].sha = fetched[k].sha
                 /\ main_commits[k].repo_name =
                        feed[fetched[k].page][fetched[k].idx].repo.name

\* the SHA s1 is listed by two pushes of one page and by a push of the next
\* page, and the result holds it three times
C8_Witness ==
    /\ pc = "done"
    /\ feed[1] = Sandwich
    /\ PagesOf("commits") = <<1, 2>>
    /\ feed[2] = <<PushA>>
    /\ Len(main_commits) = 5
    /\ main_commits[1].sha = "s1" /\ main_commits[2].sha = "s1"
    /\ main_commits[3].sha = "s1"

\* C9: each traversal issues at most 3 page requests, never one page twice,
\* and the run comes to an end.
C9_Terminates ==
    /\ [](\A fn \in {"events", "commits"} :
            LET asked == PagesOf(fn)
            IN /\ Len(asked) <= 3
               /\ \A a, b \in 1..Len(asked) : a < b => asked[a] < asked[b])
    /\ <>Finished

\* the remote served a full page for every page asked, and the run ended
C9_Witness ==
    /\ pc = "done"
    /\ PagesOf("events") = <<1, 2, 3>>
    /\ PagesOf("commits") = <<1, 2, 3>>
    /\ \A p \in 1..3 : Len(feed[p]) = 100

\* C10: the commit traversal requests the pages the event traversal
\* requested, in the same order; when it returns, it has requested all of
\* them, the events it acted on are the PushEvent records of the event list
\* in order, and every Commit's repository is that of a PushEvent of the list.
C10_SameWalk ==
    LET walked == PagesOf("events")
        rewalked == PagesOf("commits")
    IN /\ Len(rewalked) <= Len(walked)
       /\ \A k \in 1..Len(rewalked) : rewalked[k] = walked[k]
       /\ "commits" \in returned =>
             LET pushes == SelectSeq(main_events, LAMBDA g : g.type = "PushEvent")
             IN /\ rewalked = walked
                /\ Len(acted) = Len(pushes)
                /\ \A k \in 1..Len(acted) : Matches(pushes[k], acted[k])
                /\ \A k \in 1..Len(main_commits) :
                      \E m \in 1..Len(pushes) :
                          pushes[m].repo_name = main_commits[k].repo_name

\* both traversals walked three pages; two pushes were acted on
C10_Witness ==
    /\ pc = "done"
    /\ PagesOf("commits") = <<1, 2, 3>>
    /\ Len(acted) = 2
    /\ Len(main_commits) >= 2
    /\ Len(main_events) >= 3

====
